---------------------------- MODULE Spec2Model ----------------------------
(***************************************************************************)
(* A model of the WiRE externally-controlled-measurement clients           *)
(* ecm_custom.py and ecm_run.py: the JSON-RPC connection (ECMConnection.id, *)
(* ECMConnection.call, ECMConnection.wait) and the session that main()     *)
(* drives through it.  One behaviour is one invocation of one program.     *)
(*                                                                         *)
(* Optional values (Python's None or a value) are sequences of length 0 or *)
(* 1.  The server is the environment: every request is answered by a       *)
(* response chosen from Responses(method), or not answered at all.         *)
(***************************************************************************)
EXTENDS Integers, Sequences, FiniteSets, TLC

\* ------------------------------------------------------------------ bounds

\* At most this many of the optional measurement settings are given on one
\* command line (the stage flags, --send-trigger and --timeout not counted).
MaxSupplied == 2

\* ------------------------------------------------------- program constants

\* time.sleep(0.250) / timeout -= 250 in ECMConnection.wait
PollInterval == 250
\* def wait(self, handle, timeout=10000)
WaitDefaultTimeout == 10000
\* --timeout ... default=60000
DefaultTimeout == 60000
\* requests.codes.ok
HttpOk == 200

None == << >>
Some(v) == << v >>

Variants == {"ecm_custom", "ecm_run"}

\* --------------------------------------------------------------- inputs

\* The value-carrying and flag options of the measurement, by dest name.
RunSettings == {"exposure", "filename", "accumulations", "power", "get_laserpowers"}
CustomSettings == RunSettings \cup {"whitelight", "map", "series", "custom", "triggers"}

\* The value each option carries when it is given.
ArgValue(name) ==
    CASE name = "exposure" -> 500
      [] name = "filename" -> "run1"
      [] name = "accumulations" -> 3
      [] name = "power" -> 50
      [] name = "whitelight" -> "image"
      [] name = "map" -> "rectangle"
      [] name = "series" -> "series"
      [] name = "custom" -> "axis"
      [] OTHER -> TRUE

\* --use-client-stage / --use-wire-stage as given (the last one given), or none.
StageFlags == {"none", "client", "wire"}
\* Handles a caller passes to --send-trigger.
TriggerHandles == {0, 5}
\* Values given to --timeout.  Every ecm_custom.py command line modelled
\* gives one; the default enters through parse_args alone.
Timeouts == {-250, 0, 1, 250, 500, 1000}
\* Handles the server assigns in the result of Queue.Add.
Handles == {4, 7}
\* Status strings the server reports.
Statuses == {"", "RUNNING", "COMPLETE"}
\* Results of Measurement.GetLaserPowers (tenths of a percent).
PowerLists == {<< >>, <<105, 250, 500>>, <<500, 105>>}
\* Messages of the error objects the server sends, and their codes.
ErrorMessages == {"measurement busy"}
ErrorCodes == {-32000, -32601}
\* HTTP status codes the server answers with.
StatusCodes == {HttpOk, 500}

\* The command lines: which settings are given, the stage flag, the trigger
\* handle and the timeout.  ecm_run.py defines the five RunSettings only.
ArgLines(v) ==
    IF v = "ecm_custom"
    THEN [given : {S \in SUBSET CustomSettings : Cardinality(S) <= MaxSupplied},
          stage : StageFlags,
          send_trigger : {None} \cup {Some(h) : h \in TriggerHandles},
          timeout : {Some(t) : t \in Timeouts}]
    ELSE [given : {S \in SUBSET RunSettings : Cardinality(S) <= MaxSupplied},
          stage : {"none"},
          send_trigger : {None},
          timeout : {None}]

VARIABLES
    variant,    \* which program runs
    args,       \* its command line
    pc,         \* main's position
    next_id,    \* ECMConnection._id
    sent,       \* the request envelopes posted so far, in order
    handle,     \* main's local handle
    powers,     \* main's local powers
    status,     \* wait's local status, then main's
    timeout,    \* wait's local timeout
    queries,    \* status queries wait has issued
    sleeps,     \* time.sleep(0.250) calls wait has made
    seen,       \* the kinds of answer the status queries have had
    complete_at,\* the number of the first query answered "COMPLETE", 0 while none
    main_status,\* main's local status: what wait returned, None before
    exc,        \* the exception that ended main, "" while there is none
    reply,      \* the response a call made on its own met, None in a session
    outcome     \* what that call raised or returned, None in a session

vars == <<variant, args, pc, next_id, sent, handle, powers, status, timeout,
          queries, sleeps, seen, complete_at, main_status, exc, reply, outcome>>

\* ------------------------------------------------------------ argparse

\* dest='stage': two actions share the dest; the first added, store_false,
\* supplies the default True.
ParseStage(flag) == IF flag = "client" THEN FALSE ELSE TRUE

\* parser.parse_args(args): the Namespace main() reads.
parse_args(v, a) ==
    [exposure |-> IF "exposure" \in a.given THEN Some(ArgValue("exposure")) ELSE None,
     filename |-> IF "filename" \in a.given THEN Some(ArgValue("filename")) ELSE None,
     accumulations |-> IF "accumulations" \in a.given
                       THEN Some(ArgValue("accumulations")) ELSE None,
     power |-> IF "power" \in a.given THEN Some(ArgValue("power")) ELSE None,
     get_laserpowers |-> "get_laserpowers" \in a.given,
     whitelight |-> IF "whitelight" \in a.given THEN Some(ArgValue("whitelight")) ELSE None,
     map |-> IF "map" \in a.given THEN Some(ArgValue("map")) ELSE None,
     series |-> IF "series" \in a.given THEN Some(ArgValue("series")) ELSE None,
     custom |-> IF "custom" \in a.given THEN Some(ArgValue("custom")) ELSE None,
     stage |-> IF v = "ecm_custom" THEN Some(ParseStage(a.stage)) ELSE None,
     triggers |-> "triggers" \in a.given,
     send_trigger |-> a.send_trigger,
     timeout |-> IF a.timeout = None THEN DefaultTimeout ELSE a.timeout[1]]

options == parse_args(variant, args)

\* ------------------------------------------------------------ the server

\* A response body: unparseable text, or a JSON-RPC object with an error
\* object, a result, or both.
Results(method) ==
    CASE method = "Queue.Add" -> Handles
      [] method = "Queue.GetMeasurementState" -> Statuses
      [] method = "Measurement.GetLaserPowers" -> PowerLists
      [] method = "Measurement.SetFilename" -> {"C:/data/run1.wdf"}
      [] OTHER -> {TRUE}

Bodies(method) ==
    {[json |-> FALSE, error |-> None, result |-> None]}
    \cup {[json |-> TRUE, error |-> None, result |-> Some(r)] : r \in Results(method)}
    \cup {[json |-> TRUE, error |-> Some([code |-> c, message |-> m]), result |-> rs] :
            c \in ErrorCodes, m \in ErrorMessages,
            rs \in {None} \cup {Some(r) : r \in Results(method)}}

\* What requests.post meets: no response (connection refused, timed out), or
\* a response with a status code and a body.
Responses(method) ==
    {[answered |-> FALSE, status_code |-> 0,
      text |-> [json |-> FALSE, error |-> None, result |-> None]]}
    \cup {[answered |-> TRUE, status_code |-> s, text |-> b] :
            s \in StatusCodes, b \in Bodies(method)}

\* ------------------------------------------------------- ECMConnection

\* id_after with the increment forgotten.
id_after_stuck(cur) == cur

\* ECMConnection.id: the identifier the property returns, and the counter
\* it leaves behind.
id_value(cur) == cur
id_after(cur) == cur + 1

\* data = dict(jsonrpc="2.0", id=self.id, method=methodName, params=kwargs)
data(ident, methodName, kwargs) ==
    [jsonrpc |-> "2.0", id |-> ident, method |-> methodName, params |-> kwargs]

\* call with the body examined before the status code: a body that parses
\* and holds a result without an error object is returned whatever the
\* status.
call_body_first(res) ==
    IF ~res.answered
    THEN [raised |-> "ConnectionError", message |-> None, result |-> None]
    ELSE IF res.text.json /\ res.text.error = None
    THEN [raised |-> "", message |-> None, result |-> res.text.result]
    ELSE IF res.status_code = HttpOk
    THEN IF ~res.text.json
         THEN [raised |-> "JSONDecodeError", message |-> None, result |-> None]
         ELSE [raised |-> "ECMException",
               message |-> Some(res.text.error[1].message), result |-> None]
    ELSE [raised |-> "ECMException", message |-> Some(res.text), result |-> None]

\* call with the result member looked up before the error member: a body
\* holding both is returned.
call_result_first(res) ==
    IF ~res.answered
    THEN [raised |-> "ConnectionError", message |-> None, result |-> None]
    ELSE IF res.status_code = HttpOk
    THEN IF ~res.text.json
         THEN [raised |-> "JSONDecodeError", message |-> None, result |-> None]
         ELSE IF res.text.result # None
         THEN [raised |-> "", message |-> None, result |-> res.text.result]
         ELSE [raised |-> "ECMException",
               message |-> Some(res.text.error[1].message), result |-> None]
    ELSE [raised |-> "ECMException", message |-> Some(res.text), result |-> None]

\* The part of ECMConnection.call after requests.post: what the call raises
\* ("" when it returns), the raised exception's message, and the result.
\* requests.post raises when no response arrives; json.loads raises on an
\* unparseable body.
call(res) ==
    IF ~res.answered
    THEN [raised |-> "ConnectionError", message |-> None, result |-> None]
    ELSE IF res.status_code = HttpOk
    THEN IF ~res.text.json
         THEN [raised |-> "JSONDecodeError", message |-> None, result |-> None]
         ELSE IF res.text.error # None
         THEN [raised |-> "ECMException",
               message |-> Some(res.text.error[1].message), result |-> None]
         ELSE [raised |-> "", message |-> None, result |-> res.text.result]
    ELSE [raised |-> "ECMException", message |-> Some(res.text), result |-> None]

\* The part of ECMConnection.call up to requests.post: one envelope is
\* built, with a fresh identifier, and posted.
Post(methodName, kwargs) ==
    /\ sent' = Append(sent, data(id_value(next_id), methodName, kwargs))
    /\ next_id' = id_after(next_id)

\* What the call raised leaves the call.
Propagates(out) == out.raised # ""

\* Returns with the calls that follow Queue.Add wrapped in a try statement
\* that reports the exception and lets main go on.
ReturnsSwallowing(out, next) ==
    IF Propagates(out) /\ handle = None
    THEN pc' = "raised" /\ exc' = out.raised
    ELSE pc' = next /\ exc' = out.raised

\* A call in main(): its result lets main go on at `next`; what it raises
\* leaves main (only KeyboardInterrupt is caught around main).
Returns(out, next) ==
    IF Propagates(out)
    THEN pc' = "raised" /\ exc' = out.raised
    ELSE pc' = next /\ exc' = exc

\* ----------------------------------------------------------------- main

\* The connection is fresh (self._id = 0) and nothing has been posted.  The
\* locals of wait hold placeholders until wait is entered.
Init ==
    /\ variant \in Variants
    /\ args \in ArgLines(variant)
    /\ pc = "start"
    /\ next_id = 0
    /\ sent = << >>
    /\ handle = None
    /\ powers = None
    /\ status = ""
    /\ timeout = 0
    /\ queries = 0
    /\ sleeps = 0
    /\ seen = {}
    /\ complete_at = 0
    /\ main_status = None
    /\ exc = ""
    /\ reply = None
    /\ outcome = None

\* TriggerGiven testing the handle's truth value: `if options.send_trigger:`
TriggerGivenTruthy(opt) == opt # None /\ opt[1] # 0

\* if not options.send_trigger is None
TriggerGiven(opt) == opt # None

\* if not options.send_trigger is None: Measurement.Trigger, return 0
SendTrigger ==
    /\ pc = "start"
    /\ TriggerGiven(options.send_trigger)
    /\ \E res \in Responses("Measurement.Trigger") :
          /\ Post("Measurement.Trigger", [handle |-> options.send_trigger[1]])
          /\ Returns(call(res), "done")
    /\ UNCHANGED <<reply, outcome, variant, args, handle, powers, status, timeout, queries, sleeps, seen,
                   complete_at, main_status>>

\* handle = ecm.call("Queue.Add", paused=True, monitor=False, wxmString=...)
QueueAdd ==
    /\ pc = "start"
    /\ ~TriggerGiven(options.send_trigger)
    /\ \E res \in Responses("Queue.Add") :
          LET out == call(res) IN
          /\ Post("Queue.Add",
                  [paused |-> TRUE, monitor |-> FALSE, wxmString |-> "<template/>"])
          /\ Returns(out, "exposure")
          /\ handle' = IF Propagates(out) THEN handle ELSE out.result
    /\ UNCHANGED <<reply, outcome, variant, args, powers, status, timeout, queries, sleeps, seen,
                   complete_at, main_status>>

\* One optional setting: `if not options.X is None: ecm.call(method, handle=handle, name=X)`
Configure(site, opt, methodName, name, next) ==
    /\ pc = site
    /\ IF opt # None
       THEN \E res \in Responses(methodName) :
               /\ Post(methodName, (name :> opt[1]) @@ [handle |-> handle[1]])
               /\ Returns(call(res), next)
       ELSE /\ pc' = next
            /\ UNCHANGED <<next_id, sent, exc>>
    /\ UNCHANGED <<reply, outcome, variant, args, handle, powers, status, timeout, queries, sleeps, seen,
                   complete_at, main_status>>

SetExposure ==
    Configure("exposure", options.exposure, "Measurement.SetExposure", "exposure", "filename")

SetFilename ==
    Configure("filename", options.filename, "Measurement.SetFilename", "filename",
              "accumulations")

\* ecm_run.py follows the call with ecm.Measurement.SetAccumulation(handle, 10):
\* ECMConnection has no attribute Measurement.
LeftoverCall(v) == v = "ecm_run"

SetAccumulations ==
    /\ pc = "accumulations"
    /\ IF options.accumulations # None
       THEN \E res \in Responses("Measurement.SetAccumulations") :
               LET out == call(res) IN
               /\ Post("Measurement.SetAccumulations",
                       [handle |-> handle[1], accumulations |-> options.accumulations[1]])
               /\ IF ~Propagates(out) /\ LeftoverCall(variant)
                  THEN pc' = "raised" /\ exc' = "AttributeError"
                  ELSE Returns(out, "power")
       ELSE /\ pc' = "power"
            /\ UNCHANGED <<next_id, sent, exc>>
    /\ UNCHANGED <<reply, outcome, variant, args, handle, powers, status, timeout, queries, sleeps, seen,
                   complete_at, main_status>>

SetLaserPower ==
    Configure("power", options.power, "Measurement.SetLaserPower", "power", "laserpowers")

\* Where main goes on when --get-laserpowers is not given.
AfterLaserPowers(v) == IF v = "ecm_custom" THEN "whitelight" ELSE "continue"

\* if options.get_laserpowers: powers = ecm.call("Measurement.GetLaserPowers", ...)
GetLaserPowers ==
    /\ pc = "laserpowers"
    /\ IF options.get_laserpowers
       THEN \E res \in Responses("Measurement.GetLaserPowers") :
               LET out == call(res) IN
               /\ Post("Measurement.GetLaserPowers", [handle |-> handle[1]])
               /\ Returns(out, "powers_remove")
               /\ powers' = IF Propagates(out) THEN powers ELSE out.result
       ELSE /\ pc' = AfterLaserPowers(variant)
            /\ UNCHANGED <<next_id, sent, exc, powers>>
    /\ UNCHANGED <<reply, outcome, variant, args, handle, status, timeout, queries, sleeps, seen,
                   complete_at, main_status>>

\* ReturnAfterPowers with the return statement forgotten: main falls through
\* to the statements after the branch.
FallThroughAfterPowers(v) == AfterLaserPowers(v)

\* `return 0` closes the --get-laserpowers branch.
ReturnAfterPowers(v) == "done"

\* ... the powers are printed; ecm.call("Queue.Remove", handle=handle); return 0
RemoveAfterPowers ==
    /\ pc = "powers_remove"
    /\ \E res \in Responses("Queue.Remove") :
          /\ Post("Queue.Remove", [handle |-> handle[1]])
          /\ Returns(call(res), ReturnAfterPowers(variant))
    /\ UNCHANGED <<reply, outcome, variant, args, handle, powers, status, timeout, queries, sleeps, seen,
                   complete_at, main_status>>

SetImage ==
    Configure("whitelight", options.whitelight, "Measurement.SetImage", "Image", "map")

SetMap ==
    Configure("map", options.map, "Measurement.SetMap", "rectangleParam", "series")

SetSeries ==
    Configure("series", options.series, "Measurement.SetMap", "seriesParam", "custom")

SetMapCustomAxis ==
    Configure("custom", options.custom, "Measurement.SetMapCustomAxis", "custom_axes", "stage")

SetMapUseStage ==
    Configure("stage", options.stage, "Measurement.SetMapUseStage", "use_stage", "triggers")

SetMapTriggerMode ==
    Configure("triggers", IF options.triggers THEN Some("TCP_IP") ELSE None,
              "Measurement.SetMapTriggerMode", "mode", "continue")

\* ok = ecm.call("Queue.Continue", handle=handle)
QueueContinue ==
    /\ pc = "continue"
    /\ \E res \in Responses("Queue.Continue") :
          /\ Post("Queue.Continue", [handle |-> handle[1]])
          /\ Returns(call(res), "wait")
    /\ UNCHANGED <<reply, outcome, variant, args, handle, powers, status, timeout, queries, sleeps, seen,
                   complete_at, main_status>>

\* ----------------------------------------------------- ECMConnection.wait

\* time.sleep(0.250) before the loop: ecm_custom.py makes it, ecm_run.py has
\* it commented out.
InitialSleeps(v) == IF v = "ecm_custom" THEN 1 ELSE 0

\* The timeout main passes to wait: ecm_custom.py passes options.timeout,
\* ecm_run.py leaves wait's default.
WaitTimeout(v, opts) == IF v = "ecm_custom" THEN opts.timeout ELSE WaitDefaultTimeout

\* WaitLoops testing the budget alone.
WaitLoopsIgnoringStatus(st, t) == t > 0

\* WaitLoops with the budget test off by one.
WaitLoopsInclusive(st, t) == st # "COMPLETE" /\ t >= 0

\* while status != "COMPLETE" and timeout > 0
WaitLoops(st, t) == st # "COMPLETE" /\ t > 0

\* Caught with no except clause around the status query.
CaughtNothing(out) == FALSE

\* except ECMException as ex: print(ex)
Caught(out) == out.raised = "ECMException"

\* Decremented with the decrement forgotten.
DecrementForgotten(t) == t

\* timeout -= 250
Decremented(t) == t - PollInterval

\* What a status query met, for the record kept in `seen`: the status
\* returned, an error object, or a failure HTTP status.
AnswerKind(res) ==
    IF res.status_code # HttpOk THEN "http error"
    ELSE IF res.text.error # None THEN "rpc error"
    ELSE res.text.result[1]

\* status = ecm.wait(handle=handle, ...): wait is entered.
WaitEnter ==
    /\ pc = "wait"
    /\ pc' = "loop"
    /\ status' = ""
    /\ timeout' = WaitTimeout(variant, options)
    /\ sleeps' = sleeps + InitialSleeps(variant)
    /\ UNCHANGED <<reply, outcome, variant, args, next_id, sent, handle, powers, queries, seen,
                   complete_at, main_status, exc>>

\* One turn of the loop: the status query, the sleep and the decrement.  An
\* exception other than ECMException leaves wait, and main, at the query.
WaitPoll ==
    /\ pc = "loop"
    /\ WaitLoops(status, timeout)
    /\ \E res \in Responses("Queue.GetMeasurementState") :
          LET out == call(res) IN
          /\ Post("Queue.GetMeasurementState", [handle |-> handle[1]])
          /\ queries' = queries + 1
          /\ IF Propagates(out) /\ ~Caught(out)
             THEN /\ pc' = "raised"
                  /\ exc' = out.raised
                  /\ UNCHANGED <<status, timeout, sleeps, seen, complete_at>>
             ELSE /\ status' = IF Propagates(out) THEN status ELSE out.result[1]
                  /\ seen' = seen \cup {AnswerKind(res)}
                  /\ complete_at' = IF complete_at = 0 /\ AnswerKind(res) = "COMPLETE"
                                    THEN queries' ELSE complete_at
                  /\ sleeps' = sleeps + 1
                  /\ timeout' = Decremented(timeout)
                  /\ UNCHANGED <<pc, exc>>
    /\ UNCHANGED <<reply, outcome, variant, args, handle, powers, main_status>>

\* return status
WaitReturn ==
    /\ pc = "loop"
    /\ ~WaitLoops(status, timeout)
    /\ pc' = "returned"
    /\ main_status' = Some(status)
    /\ UNCHANGED <<reply, outcome, variant, args, next_id, sent, handle, powers, status, timeout,
                   queries, sleeps, seen, complete_at, exc>>

\* TimedOut looking for the status of a running measurement alone.
TimedOutOnlyRunning(st) == st = "RUNNING"

\* if status != "COMPLETE"
TimedOut(st) == st # "COMPLETE"

\* if status != "COMPLETE": ecm.call("Queue.Abort", handle=handle); time.sleep(0.500)
AbortOnTimeout ==
    /\ pc = "returned"
    /\ IF TimedOut(main_status[1])
       THEN \E res \in Responses("Queue.Abort") :
               /\ Post("Queue.Abort", [handle |-> handle[1]])
               /\ Returns(call(res), "remove")
       ELSE /\ pc' = "remove"
            /\ UNCHANGED <<next_id, sent, exc>>
    /\ UNCHANGED <<reply, outcome, variant, args, handle, powers, status, timeout, queries, sleeps, seen,
                   complete_at, main_status>>

\* ecm.call("Queue.Remove", handle=handle); return 0
QueueRemove ==
    /\ pc = "remove"
    /\ \E res \in Responses("Queue.Remove") :
          /\ Post("Queue.Remove", [handle |-> handle[1]])
          /\ Returns(call(res), "done")
    /\ UNCHANGED <<reply, outcome, variant, args, handle, powers, status, timeout, queries, sleeps, seen,
                   complete_at, main_status>>

Next ==
    \/ SendTrigger
    \/ QueueAdd
    \/ SetExposure
    \/ SetFilename
    \/ SetAccumulations
    \/ SetLaserPower
    \/ GetLaserPowers
    \/ RemoveAfterPowers
    \/ SetImage
    \/ SetMap
    \/ SetSeries
    \/ SetMapCustomAxis
    \/ SetMapUseStage
    \/ SetMapTriggerMode
    \/ QueueContinue
    \/ WaitEnter
    \/ WaitPoll
    \/ WaitReturn
    \/ AbortOnTimeout
    \/ QueueRemove

Spec == Init /\ [][Next]_vars

\* ------------------------------------------- ECMConnection.call on its own

\* The methods of the server the two programs call.
Methods ==
    {"Queue.Add", "Queue.Continue", "Queue.GetMeasurementState", "Queue.Abort",
     "Queue.Remove", "Measurement.Trigger", "Measurement.GetLaserPowers",
     "Measurement.SetExposure", "Measurement.SetFilename", "Measurement.SetAccumulations",
     "Measurement.SetLaserPower", "Measurement.SetImage", "Measurement.SetMap",
     "Measurement.SetMapCustomAxis", "Measurement.SetMapUseStage",
     "Measurement.SetMapTriggerMode"}

\* A command line with no option given: main is not run on it here.
BareArgs(v) == CHOOSE a \in ArgLines(v) : a.given = {} /\ a.stage = "none" /\ a.send_trigger = None

\* A fresh connection of either program, before any call.
CallInit ==
    /\ variant \in Variants
    /\ args = BareArgs(variant)
    /\ pc = "start"
    /\ next_id = 0
    /\ sent = << >>
    /\ handle = None
    /\ powers = None
    /\ status = ""
    /\ timeout = 0
    /\ queries = 0
    /\ sleeps = 0
    /\ seen = {}
    /\ complete_at = 0
    /\ main_status = None
    /\ exc = ""
    /\ reply = None
    /\ outcome = None

\* ecm.call(methodName, handle=h): the envelope is posted, the response is
\* met, and the call raises or returns.
CallOnce ==
    /\ pc = "start"
    /\ \E methodName \in Methods : \E h \in Handles : \E res \in Responses(methodName) :
          /\ Post(methodName, [handle |-> h])
          /\ reply' = Some(res)
          /\ outcome' = Some(call(res))
          /\ Returns(call(res), "returned")
    /\ UNCHANGED <<variant, args, handle, powers, status, timeout, queries, sleeps, seen,
                   complete_at, main_status>>

CallNext == CallOnce

CallSpec == CallInit /\ [][CallNext]_vars

\* ------------------------------------------------- sessions that keep running

\* At most this many optional settings are given on the command lines the
\* liveness of wait is checked on.
LiveSupplied == 1

LiveInit ==
    /\ Init
    /\ Cardinality(args.given) <= LiveSupplied

\* The interpreter runs the next statement, and every request is answered
\* or fails: a session that can take a step takes one.
LiveSpec == LiveInit /\ [][Next]_vars /\ WF_vars(Next)

\* ---------------------------------------------------------- properties

Ended == pc \in {"done", "raised"}

\* The places in `sent` of the calls of one method.
Calls(methodName) == {i \in DOMAIN sent : sent[i].method = methodName}

LastMethod == IF sent = << >> THEN "" ELSE sent[Len(sent)].method

\* The timeout wait was, or will be, entered with.
Budget == WaitTimeout(variant, options)

\* ceil(t / 250) for a positive t
CeilSlices(t) == (t + PollInterval - 1) \div PollInterval

\* wait has returned a status other than "COMPLETE".
ReturnedTimedOut == main_status # None /\ main_status # Some("COMPLETE")

\* C1: a session that obtained a handle from Queue.Add ends having issued
\* Queue.Remove exactly once, for that handle, as its last call, however it
\* ends.
C1_RemoveOnceAndLast ==
    (Ended /\ handle # None) =>
        /\ Cardinality(Calls("Queue.Remove")) = 1
        /\ LastMethod = "Queue.Remove"
        /\ sent[Len(sent)].params.handle = handle[1]

\* C2: when wait returned a status other than "COMPLETE", the session ends
\* having issued Queue.Abort and, after it, Queue.Remove, whether or not
\* Queue.Abort succeeded.
C2_RemoveFollowsAbort ==
    (Ended /\ ReturnedTimedOut) =>
        \E i \in Calls("Queue.Abort") : \E j \in Calls("Queue.Remove") : i < j

\* C3: the identifiers of the envelopes posted on the connection are
\* 0, 1, ..., N-1 in call order, whether the calls returned or raised, the
\* status queries of wait included.
C3_IdentifiersInCallOrder ==
    \A i \in DOMAIN sent : sent[i].id = i - 1

\* A finished session in which a status query raised and later calls followed.
C3_Witness ==
    /\ pc = "done"
    /\ "rpc error" \in seen
    /\ Len(sent) >= 6
    /\ LastMethod = "Queue.Remove"

C5_TimedOutAfterCeil ==
    (Budget > 0 /\ complete_at = 0) =>
        /\ ReturnedTimedOut => queries = CeilSlices(Budget)
        /\ queries <= CeilSlices(Budget)
        /\ (pc = "returned" => ReturnedTimedOut)

\* T = 500: timed out after exactly 2 queries.
C5_Witness ==
    /\ Budget = 500
    /\ ReturnedTimedOut
    /\ queries = 2

\* C6: a status query answered with an error object does not end the wait:
\* it leaves main nowhere, it uses up one 250 slice like any other answer,
\* and wait still returns "COMPLETE" when a later query is answered so.
C6_RpcErrorAbsorbed ==
    /\ (pc = "raised" /\ LastMethod = "Queue.GetMeasurementState") => exc # "ECMException"
    /\ pc \in {"loop", "returned"} => timeout = Budget - PollInterval * queries
    /\ main_status # None => (main_status = Some("COMPLETE") <=> complete_at > 0)

\* An error object on query 1, "COMPLETE" on query 2.
C6_Witness ==
    /\ seen = {"rpc error", "COMPLETE"}
    /\ complete_at = 2
    /\ main_status = Some("COMPLETE")

\* The calls of the scenario of C7, in order.
C7_Expected ==
    <<"Queue.Add", "Measurement.SetExposure", "Measurement.SetFilename", "Queue.Continue",
      "Queue.GetMeasurementState", "Queue.GetMeasurementState", "Queue.Remove">>

\* C7: a session with only exposure and filename given, whose status queries
\* were answered "" then "COMPLETE", has issued exactly the calls of
\* C7_Expected when main returns, every one after Queue.Add with the handle
\* Queue.Add returned.
C7_ExactCallSequence ==
    (/\ pc = "done"
     /\ args.given = {"exposure", "filename"}
     /\ args.stage = "none"
     /\ args.send_trigger = None
     /\ queries = 2
     /\ seen = {"", "COMPLETE"}) =>
        /\ Len(sent) = Len(C7_Expected)
        /\ \A i \in DOMAIN sent : sent[i].method = C7_Expected[i]
        /\ \A i \in DOMAIN sent : i > 1 => sent[i].params.handle = handle[1]

\* C8: with a timeout of 250 and every status query answered "RUNNING", the
\* session issues exactly one Queue.Abort, then exactly one Queue.Remove, and
\* no status query after the Queue.Abort.
C8_OneAbortThenOneRemove ==
    (/\ Ended
     /\ variant = "ecm_custom"
     /\ Budget = 250
     /\ queries >= 1
     /\ seen = {"RUNNING"}) =>
        /\ Cardinality(Calls("Queue.Abort")) = 1
        /\ Cardinality(Calls("Queue.Remove")) = 1
        /\ \A a \in Calls("Queue.Abort") :
              /\ \A r \in Calls("Queue.Remove") : a < r
              /\ \A q \in Calls("Queue.GetMeasurementState") : q < a

\* C9: with --get-laserpowers given and no call failing, the session has the
\* power levels the server supplied, issues exactly one Queue.Remove, and
\* issues no Queue.Continue, status query or Queue.Abort.
C9_LaserPowersThenRemove ==
    (/\ Ended
     /\ options.get_laserpowers
     /\ options.send_trigger = None
     /\ exc \in {"", "AttributeError"}) =>
        /\ powers \in {Some(p) : p \in PowerLists}
        /\ Cardinality(Calls("Queue.Remove")) = 1
        /\ Calls("Queue.Continue") = {}
        /\ Calls("Queue.GetMeasurementState") = {}
        /\ Calls("Queue.Abort") = {}

\* The create, configure and release calls.
SetupMethods ==
    {"Queue.Add", "Measurement.SetExposure", "Measurement.SetFilename",
     "Measurement.SetAccumulations", "Measurement.SetLaserPower", "Measurement.SetImage",
     "Measurement.SetMap", "Measurement.SetMapCustomAxis", "Measurement.SetMapUseStage",
     "Measurement.SetMapTriggerMode", "Queue.Continue"}

\* C10: once a create, configure or release call has failed, the session
\* issues no further call: the failed call stays the last one, and there
\* has been no status query, Queue.Abort or Queue.Remove.
C10_FailurePropagates ==
    /\ []((exc # "" /\ LastMethod \in SetupMethods) =>
            /\ pc = "raised"
            /\ Calls("Queue.GetMeasurementState") = {}
            /\ Calls("Queue.Abort") = {}
            /\ Calls("Queue.Remove") = {}
            /\ Calls("Queue.Continue") \subseteq {Len(sent)})
    /\ [][exc # "" => sent' = sent]_vars

\* Measurement.SetFilename answered with an error object, after Queue.Add
\* and Measurement.SetExposure succeeded.
C10_Witness ==
    /\ pc = "raised"
    /\ exc = "ECMException"
    /\ handle # None
    /\ Len(sent) = 3
    /\ LastMethod = "Measurement.SetFilename"

\* The configuration calls and the laser power query.
ConfigurationMethods ==
    (SetupMethods \ {"Queue.Add", "Queue.Continue"}) \cup {"Measurement.GetLaserPowers"}

\* C11: every configuration call and Measurement.GetLaserPowers is issued
\* after Queue.Add has returned the handle, with that handle, and before
\* Queue.Continue; no call follows Queue.Remove.
C11_ConfiguredBetweenAddAndContinue ==
    /\ \A i \in DOMAIN sent :
          sent[i].method \in ConfigurationMethods =>
              /\ \E a \in Calls("Queue.Add") : a < i
              /\ handle # None
              /\ sent[i].params.handle = handle[1]
              /\ \A c \in Calls("Queue.Continue") : i < c
    /\ \A r \in Calls("Queue.Remove") : r = Len(sent)

\* A session that configured two settings, released, polled and removed.
C11_Witness ==
    /\ pc = "done"
    /\ Cardinality(args.given) = 2
    /\ \E i \in DOMAIN sent : sent[i].method \in ConfigurationMethods
    /\ Calls("Queue.Continue") # {}
    /\ LastMethod = "Queue.Remove"

\* The configurable fields of a measurement, by the dest name of the option.
Fields ==
    {"exposure", "filename", "accumulations", "power", "whitelight", "map", "series",
     "custom", "stage", "triggers"}

\* The method and the parameter name of the call that configures a field.
FieldMethod(field) ==
    CASE field = "exposure" -> "Measurement.SetExposure"
      [] field = "filename" -> "Measurement.SetFilename"
      [] field = "accumulations" -> "Measurement.SetAccumulations"
      [] field = "power" -> "Measurement.SetLaserPower"
      [] field = "whitelight" -> "Measurement.SetImage"
      [] field = "map" -> "Measurement.SetMap"
      [] field = "series" -> "Measurement.SetMap"
      [] field = "custom" -> "Measurement.SetMapCustomAxis"
      [] field = "stage" -> "Measurement.SetMapUseStage"
      [] field = "triggers" -> "Measurement.SetMapTriggerMode"

FieldParam(field) ==
    CASE field = "exposure" -> "exposure"
      [] field = "filename" -> "filename"
      [] field = "accumulations" -> "accumulations"
      [] field = "power" -> "power"
      [] field = "whitelight" -> "Image"
      [] field = "map" -> "rectangleParam"
      [] field = "series" -> "seriesParam"
      [] field = "custom" -> "custom_axes"
      [] field = "stage" -> "use_stage"
      [] field = "triggers" -> "mode"

\* The places in `sent` of the calls that configure one field.
FieldCalls(field) ==
    {i \in Calls(FieldMethod(field)) : FieldParam(field) \in DOMAIN sent[i].params}

\* The caller gave the option of the field on the command line.
Supplied(field) ==
    IF field = "stage" THEN args.stage # "none" ELSE field \in args.given

\* C12: a session that has configured the measurement and reached
\* Queue.Continue has issued the call of each configurable field exactly
\* once when the caller supplied its option and not at all when the caller
\* did not.
C12_CallIffSupplied ==
    Calls("Queue.Continue") # {} =>
        \A field \in Fields :
            Cardinality(FieldCalls(field)) = IF Supplied(field) THEN 1 ELSE 0

\* A call made on its own has met a response (CallSpec).
Answered == outcome # None /\ reply[1].answered

\* C13: a response with a status code other than 200 makes call raise
\* ECMException and return no result, whatever the body holds; the
\* exception's message is the raw body of the response.
C13_NonSuccessStatusRaises ==
    (Answered /\ reply[1].status_code # HttpOk) =>
        /\ outcome[1].raised = "ECMException"
        /\ outcome[1].result = None
        /\ outcome[1].message = Some(reply[1].text)
        /\ pc = "raised"
        /\ exc = "ECMException"

\* Status 500 with a body that is a well-formed result: the call raised.
C13_Witness ==
    /\ Answered
    /\ reply[1].status_code = 500
    /\ reply[1].text.json
    /\ reply[1].text.error = None
    /\ reply[1].text.result # None
    /\ pc = "raised"

\* C14: a response with status 200 whose body holds an error object makes
\* call raise ECMException with the nested message as its message, for every
\* code and also when a result member is there as well; a body with a result
\* and no error object makes call return that result unchanged.
C14_ErrorObjectRaisesElseResult ==
    (Answered /\ reply[1].status_code = HttpOk /\ reply[1].text.json) =>
        IF reply[1].text.error # None
        THEN /\ outcome[1].raised = "ECMException"
             /\ outcome[1].result = None
             /\ outcome[1].message = Some(reply[1].text.error[1].message)
             /\ pc = "raised"
        ELSE /\ outcome[1].raised = ""
             /\ outcome[1].result = reply[1].text.result
             /\ pc = "returned"

\* Status 200 with an error object of code -32601 beside a result: the call
\* raised with the nested message.
C14_Witness ==
    /\ Answered
    /\ reply[1].status_code = HttpOk
    /\ reply[1].text.error # None
    /\ reply[1].text.error[1].code = -32601
    /\ reply[1].text.result # None
    /\ outcome[1].message = Some("measurement busy")
    /\ pc = "raised"

\* C15: an invocation given a trigger handle, 0 included, issues
\* Measurement.Trigger with that handle and no other call: one call exactly
\* when it ends, and no Queue.Add, Queue.Continue, status query, Queue.Abort
\* or Queue.Remove.
C15_TriggerAlone ==
    args.send_trigger # None =>
        /\ Len(sent) <= 1
        /\ Ended => Len(sent) = 1
        /\ \A i \in DOMAIN sent :
              /\ sent[i].method = "Measurement.Trigger"
              /\ sent[i].params = [handle |-> args.send_trigger[1]]

\* --send-trigger 0 with other options given: main returned after the one call.
C15_Witness ==
    /\ args.send_trigger = Some(0)
    /\ args.given # {}
    /\ pc = "done"
    /\ Len(sent) = 1
    /\ LastMethod = "Measurement.Trigger"

\* C16: whatever the timeout, 0 and negative values included, wait has
\* issued at least one status query when it returns, and it returns a
\* status other than "COMPLETE" only after a query that was not answered
\* "COMPLETE"; so Queue.Abort is never issued for a measurement that has not
\* been queried.
C16_QueriedBeforeTerminal ==
    /\ main_status # None => queries >= 1
    /\ ReturnedTimedOut => seen \ {"COMPLETE"} # {}
    /\ Calls("Queue.Abort") # {} => Calls("Queue.GetMeasurementState") # {}

\* C17: of the failures of a status query, wait absorbs only an error
\* object in a well-formed response; a failure HTTP status, a connection
\* failure or timeout, and an unparseable body leave wait and main.
C17_OnlyRpcErrorAbsorbed ==
    /\ seen \subseteq Statuses \cup {"rpc error"}
    /\ (pc = "raised" /\ LastMethod = "Queue.GetMeasurementState") =>
          exc \in {"ECMException", "ConnectionError", "JSONDecodeError"}
    /\ (pc # "raised" /\ Calls("Queue.GetMeasurementState") # {}) => exc = ""

\* No RPC call of the session has failed.
EveryCallSucceeded ==
    /\ exc \in {"", "AttributeError"}
    /\ seen \subseteq Statuses

\* C18: in both programs, a session given the accumulation count in which
\* every RPC call succeeds sets it with a single Measurement.SetAccumulations
\* call and goes on: it reaches Queue.Continue, polls when the budget is
\* positive, and ends with Queue.Remove.
C18_AccumulationsThenContinue ==
    (/\ Ended
     /\ "accumulations" \in args.given
     /\ "get_laserpowers" \notin args.given
     /\ args.send_trigger = None
     /\ EveryCallSucceeded) =>
        /\ pc = "done"
        /\ Cardinality(Calls("Measurement.SetAccumulations")) = 1
        /\ Calls("Queue.Continue") # {}
        /\ Budget > 0 => queries >= 1
        /\ LastMethod = "Queue.Remove"

\* max(0, ceil(T / 250)) for the timeout T wait is entered with.
MaxQueries == IF Budget > 0 THEN CeilSlices(Budget) ELSE 0

\* C19: whatever the timeout and whatever statuses and error objects the
\* status queries are answered with, wait issues at most
\* max(0, ceil(T / 250)) status queries, issues none after a query was
\* answered "COMPLETE", and terminates: it returns or an exception leaves it.
C19_WaitTerminatesWithinBudget ==
    /\ [](queries <= MaxQueries)
    /\ [](complete_at > 0 => queries = complete_at)
    /\ (pc = "loop" ~> pc \in {"returned", "raised"})

\* T = 1000: an error object, then "RUNNING", then "COMPLETE"; wait returned
\* after 3 of the 4 queries the budget allows.
C19_Witness ==
    /\ Budget = 1000
    /\ MaxQueries = 4
    /\ seen = {"rpc error", "RUNNING", "COMPLETE"}
    /\ queries = 3
    /\ pc = "returned"

\* The statuses the status queries returned.
Observed == seen \cap Statuses

\* C20: in a session that reached Queue.Continue, Queue.Abort is issued
\* exactly when wait returned a status other than "COMPLETE", which happens
\* exactly when no status query returned "COMPLETE"; the status returned is
\* one the queries returned, or "" when none returned; at most one
\* Queue.Abort is issued, and none once a query has returned "COMPLETE".
C20_AbortIffNotComplete ==
    /\ Cardinality(Calls("Queue.Abort")) <= 1
    /\ complete_at > 0 => Calls("Queue.Abort") = {}
    /\ Calls("Queue.Abort") # {} => (ReturnedTimedOut /\ Calls("Queue.Continue") # {})
    /\ (main_status # None /\ pc # "returned") =>
          (Calls("Queue.Abort") # {} <=> ReturnedTimedOut)
    /\ main_status # None =>
          /\ ReturnedTimedOut <=> complete_at = 0
          /\ main_status = Some(status)
          /\ IF Observed = {} THEN main_status = Some("") ELSE main_status[1] \in Observed

\* Every status query was answered with an error object: wait returned "",
\* Queue.Abort was issued once, and the session removed the measurement.
C20_Witness ==
    /\ pc = "done"
    /\ queries = 2
    /\ seen = {"rpc error"}
    /\ main_status = Some("")
    /\ Cardinality(Calls("Queue.Abort")) = 1

=============================================================================
